---- MODULE Spec2Model ----
(***************************************************************************)
(* The food-API proxy worker: the router (index.ts), the USDA and Open     *)
(* Food Facts handlers (usda.ts, off.ts) and the KV rate gate and response *)
(* helpers (utils.ts).  One request is handled at a time; every await of   *)
(* the code (KV get, KV put, upstream fetch) is a step of its own, and the *)
(* clock may advance between any two steps.  A behaviour follows the       *)
(* requests of one caller (client): an IP, or no CF-Connecting-IP header.  *)
(*                                                                         *)
(* Strings the code takes apart (paths, query values, product codes) are   *)
(* sequences of tokens: a token is a word ("usda"), a character ("7", "+", *)
(* " ") or a percent escape ("%2B").  pathname.split("/") is the sequence  *)
(* of segments, the leading empty one included, so the code's pathParts[i] *)
(* is parts[i + 1] here.                                                   *)
(*                                                                         *)
(* Spec is the whole worker with one request in flight.  SpecGate and      *)
(* SpecRace are the rate gate alone, called by the gated requests of one   *)
(* caller (USDA with limit 10, OFF with limit 6): one call at a time under *)
(* SpecGate, up to two overlapping calls under SpecRace, where the get and *)
(* the put of each call are steps that interleave freely.                  *)
(***************************************************************************)
EXTENDS Integers, Sequences, FiniteSets, TLC

VARIABLES env, client, now, store, hist, pc, orig, req, handler, call, hits,
          todo, gate, io, upstream, resp, mark,
          procs, ppc, papi, phits, ptodo, pgate, win

\* The state of the one-request-at-a-time model of the whole worker.
wvars == <<hist, pc, orig, req, handler, call, hits, todo, gate, io, upstream,
           resp, mark>>

\* The state of the model of the gate under overlapping requests.
gvars == <<procs, ppc, papi, phits, ptodo, pgate, win>>

vars == <<env, client, now, store, hist, pc, orig, req, handler, call, hits,
          todo, gate, io, upstream, resp, mark,
          procs, ppc, papi, phits, ptodo, pgate, win>>

(* ------------------------------ bounds -------------------------------- *)

\* The clock advances in steps of TickSec seconds, up to MaxTime.
TickSec == 30
MaxTime == 90

\* The clock of the gate model runs up to MaxTimeGate.
MaxTimeGate == 90

\* The clock of the gate model with overlapping requests runs up to
\* MaxTimeRace.
MaxTimeRace == 60

(* ------------------------- program constants -------------------------- *)

USDA_LIMIT == 10
USDA_WINDOW == 60
OFF_LIMIT == 6
OFF_WINDOW == 60
SEARCH_CACHE_TTL == 300
PRODUCT_CACHE_TTL == 86400

(* ------------------------------ strings ------------------------------- *)

\* The empty string, and a one-word string.
E == <<>>
W(w) == <<w>>

\* JavaScript's null, as a value of the string type used here.
Null == <<"\\null">>

\* JavaScript truthiness of a string-or-null: null, undefined and "" are falsy.
Truthy(s) == s # Null /\ s # E

\* JavaScript's a || b and a ?? b on string-or-null values.
Or(a, b) == IF Truthy(a) THEN a ELSE b
Coalesce(a, b) == IF a # Null THEN a ELSE b

\* The decimal digits, as characters.
Digits == <<"0", "1", "2", "3", "4", "5", "6", "7", "8", "9">>
digitValue(c) == (CHOOSE i \in 1..10 : Digits[i] = c) - 1

\* String(n) for a natural number: its decimal digits.
RECURSIVE String(_)
String(n) ==
    IF n < 10 THEN <<Digits[n + 1]>>
    ELSE Append(String(n \div 10), Digits[(n % 10) + 1])

\* parseInt(s) for a string of decimal digits.
RECURSIVE parseInt(_)
parseInt(s) ==
    IF Len(s) = 1 THEN digitValue(s[1])
    ELSE 10 * parseInt(SubSeq(s, 1, Len(s) - 1)) + digitValue(s[Len(s)])

\* application/x-www-form-urlencoded decoding of one token, as
\* URLSearchParams does on reading a query string.
formDecodeToken(t) ==
    CASE t = "+" -> " "
      [] t = "%2B" -> "+"
      [] t = "%20" -> " "
      [] OTHER -> t
formDecode(s) == [i \in 1..Len(s) |-> formDecodeToken(s[i])]

\* application/x-www-form-urlencoded encoding, as URLSearchParams.toString().
formEncodeToken(t) ==
    CASE t = " " -> "+"
      [] t = "+" -> "%2B"
      [] OTHER -> t
formEncode(s) == [i \in 1..Len(s) |-> formEncodeToken(s[i])]

\* encodeURIComponent.
encodeURIComponentToken(t) ==
    CASE t = " " -> "%20"
      [] t = "+" -> "%2B"
      [] OTHER -> t
encodeURIComponent(s) == [i \in 1..Len(s) |-> encodeURIComponentToken(s[i])]

\* What the URL parser makes of a path segment written into a URL string:
\* a space is percent-encoded, "+" and existing escapes are kept.
urlPathToken(t) == IF t = " " THEN "%20" ELSE t
urlPath(s) == [i \in 1..Len(s) |-> urlPathToken(s[i])]

(* ------------------------------ requests ------------------------------ *)

\* url.searchParams.get(name): the decoded value of the first pair of that
\* name, or null.  A query string is a sequence of <<name, raw value>>.
RECURSIVE searchParamsGet(_, _)
searchParamsGet(query, name) ==
    IF query = <<>> THEN Null
    ELSE IF query[1][1] = name THEN formDecode(query[1][2])
    ELSE searchParamsGet(Tail(query), name)

\* path.startsWith("/" + word + "/")
startsWith(path, word) == Len(path) >= 3 /\ path[2] = W(word)

RootPath == <<E, E>>
UsdaSearchPath == <<E, W("usda"), W("search")>>

\* pathParts[i] of the code (0-based), undefined read as null.
pathPart(path, i) == IF i + 1 <= Len(path) THEN path[i + 1] ELSE Null

(* ------------------------------ responses ----------------------------- *)

NoHeaders == [n \in {} |-> E]
NoResponse == [kind |-> "none", status |-> 0, body |-> Null, headers |-> NoHeaders]
\* An exception that leaves fetch() instead of a response.
Thrown == [kind |-> "exception", status |-> 0, body |-> Null, headers |-> NoHeaders]
Response(body, status, headers) ==
    [kind |-> "response", status |-> status, body |-> body, headers |-> headers]

\* JSON.stringify of an object literal, given as its <<key, value>> pairs.
RECURSIVE jsonMembers(_)
jsonMembers(x) ==
    IF x = <<>> THEN <<>>
    ELSE <<x[1][1], ":">> \o x[1][2]
         \o (IF Len(x) > 1 THEN <<",">> ELSE <<>>) \o jsonMembers(Tail(x))
JSONstringify(x) == <<"{">> \o jsonMembers(x) \o <<"}">>

CorsHeaders ==
    ("Access-Control-Allow-Origin" :> W("*"))
    @@ ("Access-Control-Allow-Methods" :> W("GET, HEAD, POST, OPTIONS"))
    @@ ("Access-Control-Allow-Headers" :> W("Content-Type, Authorization"))

\* cors(body): 204 without a body, 200 with one, the three CORS headers.
cors(body) == Response(body, IF Truthy(body) THEN 200 ELSE 204, CorsHeaders)

\* json(x, status, extra): the headers are Content-Type and extra, nothing else.
json(x, status, extra) ==
    Response(JSONstringify(x), status,
             extra @@ ("Content-Type" :> W("application/json")))

\* { ...h } for a Headers object h: object spread copies own enumerable
\* properties, and a Headers object keeps its entries in none.
spreadHeaders(h) == NoHeaders

\* The headers of a forwarded upstream response:
\* { ...cors().headers, "Content-Type": ..., "Cache-Control": ... }.
proxiedHeaders(cacheControl) ==
    ("Content-Type" :> W("application/json"))
    @@ ("Cache-Control" :> W(cacheControl))
    @@ spreadHeaders(cors(Null).headers)

NotFoundText == W("Not found. Use /usda/search or /off/search endpoints.")
notFound == Response(NotFoundText, 404, cors(Null).headers)

(* --------------------------- the counter store ------------------------ *)

\* The identities of callers: a forwarded IP, or no CF-Connecting-IP header.
Clients == {W("203.0.113.7"), Null}

\* const ip = req.headers.get("CF-Connecting-IP") ?? "0.0.0.0"; key = `rl:${ip}`
rateGateKey(r) == <<"rl:">> \o Coalesce(r.ip, W("0.0.0.0"))

Keys == {<<"rl:">> \o Coalesce(c, W("0.0.0.0")) : c \in Clients}

\* A key without a record.
Absent == [val |-> Null, exp |-> 0]

\* env.RATE.get(key) at time t: the stored string, or null when there is no
\* record or its TTL has elapsed.
kvGet(s, key, t) ==
    IF s[key].val # Null /\ t < s[key].exp THEN s[key].val ELSE Null

\* env.RATE.put(key, value, { expirationTtl: ttl }) at time t.
kvPut(s, key, value, ttl, t) ==
    [s EXCEPT ![key] = [val |-> value, exp |-> t + ttl]]

\* The store at time t: records whose TTL has elapsed are gone.
kvExpire(s, t) ==
    [k \in DOMAIN s |-> IF s[k].val # Null /\ s[k].exp <= t THEN Absent ELSE s[k]]

(* ----------------------------- the rate gate -------------------------- *)

NoDecision == [decided |-> FALSE, allowed |-> FALSE, retryAfter |-> 0]
Decision(allowed, retryAfter) ==
    [decided |-> TRUE, allowed |-> allowed, retryAfter |-> retryAfter]

\* rateGate failing closed when no store is bound.
rateGateNoKV_FailClosed == Decision(FALSE, 0)

\* if (!env.RATE) return { allowed: true, retryAfter: 0 }
rateGateNoKV == Decision(TRUE, 0)

\* const hits = parseInt((await env.RATE.get(key)) ?? "0")
rateGateHits(got) == parseInt(Coalesce(got, String(0)))

\* rateGateSteps with the limit test off by one: if (hits > limit).
rateGateSteps_OffByOne(h, limit) ==
    IF h > limit THEN <<"reject">> ELSE <<"put", "allow">>

\* rateGateSteps counting every call, the rejected ones too: the put moved
\* above the limit test.
rateGateSteps_CountRejected(h, limit) ==
    IF h >= limit THEN <<"put", "reject">> ELSE <<"put", "allow">>

\* What rateGate does once it has read hits, in order: it returns the
\* rejection at once, or puts hits + 1 and then returns the admission.
rateGateSteps(h, limit) ==
    IF h >= limit THEN <<"reject">> ELSE <<"put", "allow">>

\* The value a return step of rateGate returns.
rateGateReturn(step, windowSec) ==
    IF step = "reject" THEN Decision(FALSE, windowSec) ELSE Decision(TRUE, 0)

\* await env.RATE.put(key, String(hits + 1), { expirationTtl: windowSec })
\* A gate whose put increments the stored count in one step.
rateGatePut_Atomic(s, key, h, windowSec, t) ==
    kvPut(s, key, String(rateGateHits(kvGet(s, key, t)) + 1), windowSec, t)

\* A gate that writes the count back as it read it.
rateGatePut_NoIncrement(s, key, h, windowSec, t) ==
    kvPut(s, key, String(h), windowSec, t)

rateGatePut(s, key, h, windowSec, t) == kvPut(s, key, String(h + 1), windowSec, t)

(* ------------------------------ upstreams ----------------------------- *)

USER_AGENT == W("USDAFoodProxy/1.0 (+https://github.com/yourproject)")

NoUpstream ==
    [api |-> "none", endpoint |-> "", arg |-> E, cacheTtl |-> 0, userAgent |-> Null]

\* fetch(`https://api.nal.usda.gov/fdc/v1/foods/search?query=${encodeURIComponent(query)}&...`)
usdaFetch(query) ==
    [api |-> "usda", endpoint |-> "foods/search", arg |-> encodeURIComponent(query),
     cacheTtl |-> 0, userAgent |-> Null]

\* fetch(`${OFF_BASE}/search?${new URLSearchParams({ search_terms: query, ... })}`)
offSearchFetch(query) ==
    [api |-> "off", endpoint |-> "search", arg |-> formEncode(query),
     cacheTtl |-> SEARCH_CACHE_TTL, userAgent |-> USER_AGENT]

\* fetch(`${OFF_BASE}/product/${productCode}?${productParams}`): the code is
\* written into the URL as it is, and the URL parser reads it as a path.
offProductFetch(productCode) ==
    [api |-> "off", endpoint |-> "product", arg |-> urlPath(productCode),
     cacheTtl |-> PRODUCT_CACHE_TTL, userAgent |-> USER_AGENT]

\* What an upstream fetch can come to: a response (res.ok or not, its body
\* JSON or not), or an exception.
Outcome(kind, status, body, isJson) ==
    [kind |-> kind, status |-> status, body |-> body, json |-> isJson]
NoOutcome == Outcome("none", 0, Null, FALSE)
Outcomes ==
    {Outcome("throw", 0, Null, FALSE),
     Outcome("response", 200, W("{upstream json}"), TRUE),
     Outcome("response", 201, W("{upstream json}"), TRUE),
     Outcome("response", 200, W("<html>"), FALSE),
     Outcome("response", 404, W("{upstream error}"), TRUE),
     Outcome("response", 503, W("<html>"), FALSE)}

\* res.ok
ok(out) == out.status >= 200 /\ out.status <= 299

(* ------------------------------ handlers ------------------------------ *)

reply(r) == [resp |-> r, up |-> NoUpstream]
forward(u) == [resp |-> NoResponse, up |-> u]

\* A handler without its preflight short-circuit.
isPreflight_Never(r) == FALSE

\* if (req.method === "OPTIONS") return cors(null)
isPreflight(r) == r.method = "OPTIONS"

\* json({ error: "Rate limit exceeded" }, 429, { "Retry-After": retryAfter })
rateLimited(retryAfter) ==
    json(<<<<"error", W("Rate limit exceeded")>>>>, 429,
         "Retry-After" :> String(retryAfter))

badRequest(message) == json(<<<<"error", W(message)>>>>, 400, NoHeaders)

\* handleUSDA validating the endpoint before it looks at the gate's decision.
handleUSDA_ValidateFirst(r, g) ==
    IF pathPart(r.path, 2) # W("search")
    THEN reply(badRequest("Invalid endpoint. Use /usda/search"))
    ELSE IF ~g.allowed THEN reply(rateLimited(g.retryAfter))
    ELSE IF ~Truthy(searchParamsGet(r.query, "query"))
    THEN reply(badRequest("Missing ?query parameter"))
    ELSE forward(usdaFetch(searchParamsGet(r.query, "query")))

\* handleUSDA from the rate gate's decision g to the upstream fetch.
handleUSDA(r, g) ==
    IF ~g.allowed THEN reply(rateLimited(g.retryAfter))
    ELSE IF pathPart(r.path, 2) # W("search")
    THEN reply(badRequest("Invalid endpoint. Use /usda/search"))
    ELSE IF ~Truthy(searchParamsGet(r.query, "query"))
    THEN reply(badRequest("Missing ?query parameter"))
    ELSE forward(usdaFetch(searchParamsGet(r.query, "query")))

\* An OFF search that goes to the USDA upstream.
handleOFFSearch_ViaUsda(r) ==
    IF ~Truthy(searchParamsGet(r.query, "query"))
    THEN reply(badRequest("Missing ?query parameter"))
    ELSE forward(usdaFetch(searchParamsGet(r.query, "query")))

handleOFFSearch(r) ==
    IF ~Truthy(searchParamsGet(r.query, "query"))
    THEN reply(badRequest("Missing ?query parameter"))
    ELSE forward(offSearchFetch(searchParamsGet(r.query, "query")))

\* const productCode = code || url.searchParams.get("code")
productCode(r, code) == Or(code, searchParamsGet(r.query, "code"))

handleOFFProduct(r, code) ==
    IF ~Truthy(productCode(r, code))
    THEN reply(badRequest("Missing product code. Use /off/product/{code} or ?code parameter"))
    ELSE forward(offProductFetch(productCode(r, code)))

\* handleOFF from the rate gate's decision g to the upstream fetch.
handleOFF(r, g) ==
    IF ~g.allowed THEN reply(rateLimited(g.retryAfter))
    ELSE IF pathPart(r.path, 2) = W("search") THEN handleOFFSearch(r)
    ELSE IF pathPart(r.path, 2) = W("product")
    THEN handleOFFProduct(r, pathPart(r.path, 3))
    ELSE reply(badRequest("Invalid endpoint. Use /off/search or /off/product"))

\* The arguments each handler gives rateGate.
rateGateArgs(h) ==
    IF h = "usda" THEN [limit |-> USDA_LIMIT, windowSec |-> USDA_WINDOW]
    ELSE [limit |-> OFF_LIMIT, windowSec |-> OFF_WINDOW]
NoCall == [limit |-> 0, windowSec |-> 0]

upstreamError(api, out) ==
    json(<<<<"error", W(api)>>, <<"status", String(out.status)>>>>, 502, NoHeaders)
fetchFailed(message) == json(<<<<"error", W(message)>>>>, 500, NoHeaders)

\* handleUSDA from the completion of its fetch: try { ... } catch { ... }.
usdaResponse(out) ==
    IF out.kind = "throw" THEN fetchFailed("Failed to fetch from USDA API")
    ELSE IF ~ok(out) THEN upstreamError("USDA API error", out)
    ELSE Response(out.body, out.status, proxiedHeaders("s-maxage=300"))

\* The body of an OFF search response: the upstream JSON with its products
\* enhanced, serialised again.
enhance(body) == <<"enhanced">> \o body

\* handleOFFSearch from the completion of its fetch; res.json() is inside the try.
offSearchResponse(out) ==
    IF out.kind = "throw" THEN fetchFailed("Failed to fetch from Open Food Facts API")
    ELSE IF ~ok(out) THEN upstreamError("OFF API error", out)
    ELSE IF ~out.json THEN fetchFailed("Failed to fetch from Open Food Facts API")
    ELSE Response(enhance(out.body), out.status, proxiedHeaders("s-maxage=300"))

\* handleOFFProduct with the search handler's cache directive.
offProductResponse_SearchCache(out) ==
    IF out.kind = "throw" THEN fetchFailed("Failed to fetch from Open Food Facts API")
    ELSE IF ~ok(out) THEN upstreamError("OFF API error", out)
    ELSE Response(out.body, out.status, proxiedHeaders("s-maxage=300"))

\* handleOFFProduct from the completion of its fetch.
offProductResponse(out) ==
    IF out.kind = "throw" THEN fetchFailed("Failed to fetch from Open Food Facts API")
    ELSE IF ~ok(out) THEN upstreamError("OFF API error", out)
    ELSE Response(out.body, out.status, proxiedHeaders("s-maxage=86400"))

\* The response of the handler that issued the upstream request u.
onFetch(u, out) ==
    IF u.api = "usda" THEN usdaResponse(out)
    ELSE IF u.endpoint = "search" THEN offSearchResponse(out)
    ELSE offProductResponse(out)

\* The handler h from the gate's decision on.
afterGate(h, r, g) == IF h = "usda" THEN handleUSDA(r, g) ELSE handleOFF(r, g)

(* ------------------------------- router ------------------------------- *)

NoRequest == [method |-> "", path |-> <<>>, query |-> <<>>, ip |-> Null]

\* The rewrite building its URL from the path alone, the query string lost.
newRequest_DropQuery(r) == [r EXCEPT !.path = UsdaSearchPath, !.query = <<>>]

\* newUrl.pathname = "/usda/search"; new Request(newUrl.toString(),
\* { method: req.method, headers: req.headers, body: req.body })
newRequest(r) == [r EXCEPT !.path = UsdaSearchPath]

\* (path === "/" || path.startsWith("/?")) && url.searchParams.get("query");
\* a pathname holds no "?", so the second disjunct never holds.
isLegacyRoot(r) == r.path = RootPath /\ Truthy(searchParamsGet(r.query, "query"))

\* fetch(): the handler a request goes to and the request it is given.
route(r) ==
    IF startsWith(r.path, "usda") THEN [handler |-> "usda", req |-> r]
    ELSE IF startsWith(r.path, "off") THEN [handler |-> "off", req |-> r]
    ELSE IF isLegacyRoot(r) THEN [handler |-> "usda", req |-> newRequest(r)]
    ELSE [handler |-> "none", req |-> r]

(* ------------------------------- inputs ------------------------------- *)

Methods == {"GET", "OPTIONS"}

\* Product codes as they are written in a URL.
RawCodes == {W("3017620422003"), <<"12", "+", "34">>}

Url(path, query) == [path |-> path, query |-> query]

OffProduct == <<E, W("off"), W("product")>>

Urls ==
    {Url(p, <<>>) :
        p \in {RootPath, <<E, W("unknown")>>, <<E, W("usda")>>, UsdaSearchPath,
               <<E, W("usda"), W("foods")>>, <<E, W("off"), W("search")>>,
               <<E, W("off"), W("nonsense")>>}}
    \cup {Url(p, <<<<"query", q>>>>) :
        p \in {RootPath, <<E, W("unknown")>>, UsdaSearchPath,
               <<E, W("usda"), W("foods")>>, <<E, W("off"), W("search")>>},
        q \in {E, W("apple")}}
    \cup {Url(p, q) :
        p \in {OffProduct} \cup {Append(OffProduct, c) : c \in RawCodes \cup {E}},
        q \in {<<>>} \cup {<<<<"code", c>>>> : c \in RawCodes \cup {E}}}

(* ---------------------- history of the gate's calls ------------------- *)

\* Per key, since the key last had no record: the number of decisions the
\* gate returned (counted up to lim + 1), the limit of those calls (0: none
\* yet, -1: calls of different limits, or a call that read the record
\* before it expired and wrote after), and whether the record expired after
\* a rejection.
FreshHist == [calls |-> 0, lim |-> 0, lapsed |-> FALSE]

uniform(h, limit) == h.lim = 0 \/ h.lim = limit

nthCall(h, limit) ==
    IF ~uniform(h, limit) THEN 0
    ELSE IF h.calls + 1 > limit + 1 THEN limit + 1 ELSE h.calls + 1

histOnDecision(h, limit) ==
    [calls |-> nthCall(h, limit),
     lim |-> IF uniform(h, limit) THEN limit ELSE -1,
     lapsed |-> FALSE]

NoMark == [nth |-> 0, uniform |-> FALSE, afterLapse |-> FALSE]
markOnDecision(h, limit) ==
    [nth |-> nthCall(h, limit), uniform |-> uniform(h, limit), afterLapse |-> h.lapsed]

(* ------------------- the gate under overlapping requests -------------- *)

\* Up to two requests of one caller are in the gate at once: each is a
\* non-OPTIONS request to /usda/... or /off/..., that is a call of
\* rateGate(req, env, 10, 60) or rateGate(req, env, 6, 60).
Procs == {1, 2}
Apis == {"usda", "off"}

\* The record's history, kept beside the store to state the claims:
\*   first     when the put that created the current record happened (-1
\*             while there is no record);
\*   usda, off the decisions returned to requests of each API since the
\*             caller last had no record (counted up to limit + 1);
\*   admitted  the requests admitted since the current record was created;
\*   clean     no request read the record before its expiry and wrote after;
\*   span      the times of the admissions less than a window ago;
\*   sent      the times of the calls less than a window ago, kept while
\*   paced     the caller never had more calls in a span of a window than
\*             the limit of the call it was making.
FreshWin(clean, span, sent) ==
    [first |-> -1, usda |-> 0, off |-> 0, admitted |-> 0, clean |-> clean,
     span |-> span, sent |-> sent, paced |-> TRUE]

\* The times of ts that lie less than windowSec before t.
within(ts, windowSec, t) == SelectSeq(ts, LAMBDA x : t - x < windowSec)

\* usda, off, span and sent are kept for a caller whose requests come one at
\* a time.
winOnCall(w, api, serial, t) ==
    LET sent1 == Append(w.sent, t)
        paced1 == w.paced /\ Len(sent1) <= rateGateArgs(api).limit
    IN IF serial
       THEN [w EXCEPT !.sent = IF paced1 THEN sent1 ELSE <<>>, !.paced = paced1]
       ELSE w

\* admitted is counted up to MaxAdmitted.
MaxAdmitted == USDA_LIMIT + 2

winOnDecision(w, api, g, created, serial, t) ==
    LET lim == rateGateArgs(api).limit
        w1 == IF ~serial THEN w
              ELSE IF api = "usda"
              THEN [w EXCEPT !.usda = IF @ > lim THEN @ ELSE @ + 1]
              ELSE [w EXCEPT !.off = IF @ > lim THEN @ ELSE @ + 1]
    IN IF g.allowed
       THEN [w1 EXCEPT !.first = IF created THEN t ELSE @,
                       !.admitted = IF created THEN 1
                                    ELSE IF @ >= MaxAdmitted THEN @ ELSE @ + 1,
                       !.span = IF serial THEN Append(@, t) ELSE @]
       ELSE w1

\* The clock reaches t: the record of key has expired or not.
winOnTick(w, s, key, straddled, windowSec, t) ==
    LET span1 == within(w.span, windowSec, t)
        sent1 == within(w.sent, windowSec, t)
    IN IF s[key].val # Null /\ s[key].exp <= t
       THEN [FreshWin(~straddled, span1, sent1) EXCEPT !.paced = w.paced]
       ELSE [w EXCEPT !.span = span1, !.sent = sent1]

(* ------------------------------- actions ------------------------------ *)

\* What the request in flight has asked of its collaborators: the numbers of
\* KV gets, KV puts and upstream fetches it issued, the string its get
\* returned, the string its put stored, and what its fetch came to.
NoIo ==
    [gets |-> 0, puts |-> 0, fetches |-> 0, read |-> Null, wrote |-> Null,
     outcome |-> NoOutcome]

Init ==
    /\ env \in [RATE : BOOLEAN]
    /\ client \in Clients
    /\ now = 0
    /\ store = [k \in Keys |-> Absent]
    /\ hist = [k \in Keys |-> FreshHist]
    /\ pc = "idle"
    /\ orig = NoRequest
    /\ req = NoRequest
    /\ handler = "none"
    /\ call = NoCall
    /\ hits = 0
    /\ todo = <<>>
    /\ gate = NoDecision
    /\ io = NoIo
    /\ upstream = NoUpstream
    /\ resp = NoResponse
    /\ mark = NoMark
    /\ procs = {}
    /\ ppc = [p \in Procs |-> "idle"]
    /\ papi = [p \in Procs |-> "none"]
    /\ phits = [p \in Procs |-> 0]
    /\ ptodo = [p \in Procs |-> <<>>]
    /\ pgate = [p \in Procs |-> NoDecision]
    /\ win = FreshWin(TRUE, <<>>, <<>>)

\* The handler h goes on from the gate's decision g: it returns a response,
\* or issues its upstream fetch and awaits it.
Conclude(h, r, g, io1) ==
    LET a == afterGate(h, r, g) IN
    IF a.up = NoUpstream
    THEN /\ pc' = "done"
         /\ resp' = a.resp
         /\ upstream' = NoUpstream
         /\ io' = io1
    ELSE /\ pc' = "upstream"
         /\ resp' = NoResponse
         /\ upstream' = a.up
         /\ io' = [io1 EXCEPT !.fetches = @ + 1]

\* rateGate, called by handler h for request r with arguments c, returns g.
Decide(h, r, c, g, io1) ==
    LET k == rateGateKey(r) IN
    /\ gate' = g
    /\ mark' = markOnDecision(hist[k], c.limit)
    /\ hist' = [hist EXCEPT ![k] = histOnDecision(@, c.limit)]
    /\ Conclude(h, r, g, io1)

\* fetch(req, env, ctx) up to its first await: the router, the handler's
\* preflight check, and rateGate up to env.RATE.get.
Receive(method, url) ==
    /\ pc = "idle"
    /\ LET r == [method |-> method, path |-> url.path, query |-> url.query,
                 ip |-> client]
           to == route(r)
       IN /\ orig' = r
          /\ req' = to.req
          /\ handler' = to.handler
          /\ IF to.handler = "none"
             THEN /\ pc' = "done"
                  /\ resp' = notFound
                  /\ UNCHANGED <<hist, call, gate, io, upstream, mark>>
             ELSE IF isPreflight(to.req)
             THEN /\ pc' = "done"
                  /\ resp' = cors(Null)
                  /\ UNCHANGED <<hist, call, gate, io, upstream, mark>>
             ELSE /\ call' = rateGateArgs(to.handler)
                  /\ IF ~env.RATE
                     THEN Decide(to.handler, to.req, rateGateArgs(to.handler),
                                 rateGateNoKV, io)
                     ELSE /\ pc' = "get"
                          /\ io' = [io EXCEPT !.gets = @ + 1]
                          /\ UNCHANGED <<hist, gate, upstream, resp, mark>>
    /\ UNCHANGED <<env, client, now, store, hits, todo>>

\* await env.RATE.get(key) completes: it throws, or rateGate reads hits and
\* either returns its rejection or issues the put.
KvGet(works) ==
    /\ pc = "get"
    /\ IF ~works
       THEN /\ pc' = "done"
            /\ resp' = Thrown
            /\ UNCHANGED <<hist, hits, todo, gate, io, upstream, mark>>
       ELSE LET got == kvGet(store, rateGateKey(req), now)
                h == rateGateHits(got)
                steps == rateGateSteps(h, call.limit)
            IN /\ hits' = h
               /\ IF Head(steps) = "put"
                  THEN /\ pc' = "put"
                       /\ todo' = Tail(steps)
                       /\ io' = [io EXCEPT !.puts = @ + 1, !.read = got]
                       /\ UNCHANGED <<hist, gate, upstream, resp, mark>>
                  ELSE /\ todo' = <<>>
                       /\ Decide(handler, req, call,
                                 rateGateReturn(Head(steps), call.windowSec),
                                 [io EXCEPT !.read = got])
    /\ UNCHANGED <<env, client, now, store, orig, req, handler, call>>

\* await env.RATE.put(...) completes: it throws, or the record is written
\* and rateGate returns.
KvPut(works) ==
    /\ pc = "put"
    /\ IF ~works
       THEN /\ pc' = "done"
            /\ resp' = Thrown
            /\ UNCHANGED <<store, hist, todo, gate, io, upstream, mark>>
       ELSE /\ store' = rateGatePut(store, rateGateKey(req), hits, call.windowSec, now)
            /\ todo' = Tail(todo)
            /\ Decide(handler, req, call,
                      rateGateReturn(Head(todo), call.windowSec),
                      [io EXCEPT !.wrote = store'[rateGateKey(req)].val])
    /\ UNCHANGED <<env, client, now, orig, req, handler, call, hits>>

\* await fetch(upstream) completes and the handler returns its response.
UpstreamDone(out) ==
    /\ pc = "upstream"
    /\ pc' = "done"
    /\ resp' = onFetch(upstream, out)
    /\ io' = [io EXCEPT !.outcome = out]
    /\ UNCHANGED <<env, client, now, store, hist, orig, req, handler, call,
                   hits, todo, gate, upstream, mark>>

\* The caller takes the response (or the exception); the next request may come.
Deliver ==
    /\ pc = "done"
    /\ pc' = "idle"
    /\ orig' = NoRequest
    /\ req' = NoRequest
    /\ handler' = "none"
    /\ call' = NoCall
    /\ hits' = 0
    /\ todo' = <<>>
    /\ gate' = NoDecision
    /\ io' = NoIo
    /\ upstream' = NoUpstream
    /\ resp' = NoResponse
    /\ mark' = NoMark
    /\ UNCHANGED <<env, client, now, store, hist>>

\* Time passes; records whose TTL has elapsed leave the store.
Tick ==
    /\ now + TickSec <= MaxTime
    /\ now' = now + TickSec
    /\ store' = kvExpire(store, now')
    /\ hist' = [k \in Keys |->
                   IF store[k].val # Null /\ store[k].exp <= now'
                   THEN [calls |-> 0,
                         lim |-> IF pc = "put" /\ rateGateKey(req) = k THEN -1 ELSE 0,
                         lapsed |-> hist[k].lim > 0 /\ hist[k].calls = hist[k].lim + 1]
                   ELSE hist[k]]
    /\ UNCHANGED <<env, client, pc, orig, req, handler, call, hits, todo, gate,
                   io, upstream, resp, mark>>

Next ==
    \/ \E m \in Methods, u \in Urls : Receive(m, u) /\ UNCHANGED gvars
    \/ \E works \in BOOLEAN : KvGet(works) /\ UNCHANGED gvars
    \/ \E works \in BOOLEAN : KvPut(works) /\ UNCHANGED gvars
    \/ \E out \in Outcomes : UpstreamDone(out) /\ UNCHANGED gvars
    \/ Deliver /\ UNCHANGED gvars
    \/ Tick /\ UNCHANGED gvars

Spec == Init /\ [][Next]_vars

(* ---------------- actions of the gate under overlapping requests ------- *)

\* A counter store is bound, the worker serves nothing else, and no request
\* of the caller has reached the gate yet.
GateIdle ==
    /\ env = [RATE |-> TRUE]
    /\ client \in Clients
    /\ now = 0
    /\ store = [k \in Keys |-> Absent]
    /\ hist = [k \in Keys |-> FreshHist]
    /\ pc = "idle"
    /\ orig = NoRequest
    /\ req = NoRequest
    /\ handler = "none"
    /\ call = NoCall
    /\ hits = 0
    /\ todo = <<>>
    /\ gate = NoDecision
    /\ io = NoIo
    /\ upstream = NoUpstream
    /\ resp = NoResponse
    /\ mark = NoMark
    /\ ppc = [p \in Procs |-> "idle"]
    /\ papi = [p \in Procs |-> "none"]
    /\ phits = [p \in Procs |-> 0]
    /\ ptodo = [p \in Procs |-> <<>>]
    /\ pgate = [p \in Procs |-> NoDecision]
    /\ win = FreshWin(TRUE, <<>>, <<>>)

\* The caller has one request in the gate at a time.
InitGate == GateIdle /\ procs = {1}

gateKey == rateGateKey([NoRequest EXCEPT !.ip = client])
serial == procs = {1}

\* rateGate returns to request p: step is "allow" or "reject".
GateDecide(p, step, created) ==
    LET g == rateGateReturn(step, rateGateArgs(papi[p]).windowSec) IN
    /\ ppc' = [ppc EXCEPT ![p] = "done"]
    /\ pgate' = [pgate EXCEPT ![p] = g]
    /\ win' = winOnDecision(win, papi[p], g, created, serial, now)

\* A request of the caller reaches handleUSDA or handleOFF, which calls
\* rateGate: the gate issues env.RATE.get(key).
GateCall(p, api) ==
    /\ ppc[p] = "idle"
    /\ ppc' = [ppc EXCEPT ![p] = "get"]
    /\ papi' = [papi EXCEPT ![p] = api]
    /\ win' = winOnCall(win, api, serial, now)
    /\ UNCHANGED <<env, client, now, store, wvars, procs, phits, ptodo, pgate>>

\* env.RATE.get(key) resolves for request p: the gate parses the count and
\* rejects, or issues env.RATE.put.
GateGet(p) ==
    /\ ppc[p] = "get"
    /\ LET h == rateGateHits(kvGet(store, gateKey, now))
           steps == rateGateSteps(h, rateGateArgs(papi[p]).limit)
       IN /\ phits' = [phits EXCEPT ![p] = h]
          /\ IF Head(steps) = "put"
             THEN /\ ppc' = [ppc EXCEPT ![p] = "put"]
                  /\ ptodo' = [ptodo EXCEPT ![p] = Tail(steps)]
                  /\ UNCHANGED <<pgate, win>>
             ELSE /\ GateDecide(p, Head(steps), FALSE)
                  /\ UNCHANGED ptodo
    /\ UNCHANGED <<env, client, now, store, wvars, procs, papi>>

\* env.RATE.put(key, String(hits + 1), { expirationTtl }) resolves for
\* request p, and rateGate returns.
GatePut(p) ==
    /\ ppc[p] = "put"
    /\ store' = rateGatePut(store, gateKey, phits[p],
                            rateGateArgs(papi[p]).windowSec, now)
    /\ GateDecide(p, Head(ptodo[p]), kvGet(store, gateKey, now) = Null)
    /\ ptodo' = [ptodo EXCEPT ![p] = <<>>]
    /\ UNCHANGED <<env, client, now, wvars, procs, papi, phits>>

\* The handler of request p has gone on from the gate's decision; the next
\* request of the caller may take its place.
GateDone(p) ==
    /\ ppc[p] = "done"
    /\ ppc' = [ppc EXCEPT ![p] = "idle"]
    /\ papi' = [papi EXCEPT ![p] = "none"]
    /\ phits' = [phits EXCEPT ![p] = 0]
    /\ pgate' = [pgate EXCEPT ![p] = NoDecision]
    /\ UNCHANGED <<env, client, now, store, wvars, procs, ptodo, win>>

\* TickSec seconds pass; records whose TTL has elapsed are gone.
GateTick(max) ==
    /\ now + TickSec <= max
    /\ now' = now + TickSec
    /\ store' = kvExpire(store, now')
    /\ win' = winOnTick(win, store, gateKey, \E p \in procs : ppc[p] = "put",
                        USDA_WINDOW, now')
    /\ UNCHANGED <<env, client, wvars, procs, ppc, papi, phits, ptodo, pgate>>

NextGate ==
    \/ \E p \in procs, api \in Apis : GateCall(p, api)
    \/ \E p \in procs : GateGet(p)
    \/ \E p \in procs : GatePut(p)
    \/ \E p \in procs : GateDone(p)
    \/ GateTick(MaxTimeGate)

SpecGate == InitGate /\ [][NextGate]_vars

\* The caller has up to two requests in the gate at once.
InitRace == GateIdle /\ procs = Procs

NextRace ==
    \/ \E p \in procs, api \in Apis : GateCall(p, api)
    \/ \E p \in procs : GateGet(p)
    \/ \E p \in procs : GatePut(p)
    \/ \E p \in procs : GateDone(p)
    \/ GateTick(MaxTimeRace)

SpecRace == InitRace /\ [][NextRace]_vars

(* ------------------------------- claims ------------------------------- *)

\* C1: with a counter store bound and one request handled at a time, counting
\* the calls of rateGate with one limit N from a state where the identity has
\* no record: each of the first N decisions is allowed = true, the (N+1)th is
\* allowed = false with retryAfter equal to the window, and a call made after
\* the record's TTL has elapsed is allowed again.
C1_FirstNThenRejectThenAgain ==
    (env.RATE /\ gate.decided /\ mark.uniform) =>
        /\ (mark.nth <= call.limit => gate.allowed /\ gate.retryAfter = 0)
        /\ (mark.nth = call.limit + 1 =>
                ~gate.allowed /\ gate.retryAfter = call.windowSec)
        /\ (mark.afterLapse => gate.allowed)

\* C1 witness: an identity was rejected as its (N+1)th call, its record
\* expired, and its next call is admitted.
C1_Witness ==
    /\ env.RATE /\ gate.decided /\ mark.uniform
    /\ mark.afterLapse /\ mark.nth = 1 /\ gate.allowed

\* C2: a rateGate call that returns allowed = false issued no put and the
\* step in which it returns leaves the store as it was; the store's records
\* are written only in a step in which rateGate returns allowed = true.
C2_RejectionWritesNothing ==
    [][/\ (~gate.decided /\ gate'.decided /\ ~gate'.allowed) =>
              (store' = store /\ io'.puts = 0 /\ io'.wrote = Null)
       /\ (store' # store /\ now' = now) =>
              (~gate.decided /\ gate'.decided /\ gate'.allowed)]_vars

\* C2 witness: a call was rejected while the record holds the limit.
C2_Witness ==
    /\ gate.decided /\ ~gate.allowed /\ io.puts = 0
    /\ io.read = String(call.limit)
    /\ store[rateGateKey(req)].val = String(call.limit)

\* C3: with no counter store bound every call of rateGate returns
\* allowed = true, whatever the identity, the limit and the number of earlier
\* calls, the store is never asked, and no response is a 429.
C3_NoStoreAdmitsAll ==
    ~env.RATE =>
        /\ (call # NoCall => gate = Decision(TRUE, 0))
        /\ io.gets = 0 /\ io.puts = 0
        /\ resp.status # 429

\* C3 witness: without a store, the call after the limit's worth of calls
\* is admitted.
C3_Witness ==
    /\ ~env.RATE /\ gate.decided /\ gate.allowed
    /\ mark.uniform /\ mark.nth = call.limit + 1

\* The three CORS headers at their documented values.
hasCors(r) ==
    /\ {"Access-Control-Allow-Origin", "Access-Control-Allow-Methods",
        "Access-Control-Allow-Headers"} \subseteq DOMAIN r.headers
    /\ r.headers["Access-Control-Allow-Origin"] = W("*")
    /\ r.headers["Access-Control-Allow-Methods"] = W("GET, HEAD, POST, OPTIONS")
    /\ r.headers["Access-Control-Allow-Headers"] = W("Content-Type, Authorization")

\* C4: every response the worker emits (204, 200, 400, 429, 502, 500, 404)
\* carries the three CORS headers.
C4_EveryResponseHasCors == resp.kind = "response" => hasCors(resp)

underApi(path) == startsWith(path, "usda") \/ startsWith(path, "off")

\* C5: an OPTIONS request whose path is under /usda/ or /off/ is answered 204
\* with the three CORS headers at their documented values as soon as it is
\* received: rateGate is not called, the store is neither read nor written
\* and no upstream fetch is issued, whatever the sub-path, the query and the
\* identity's hit count.
C5_PreflightFirst ==
    (pc # "idle" /\ orig.method = "OPTIONS" /\ underApi(orig.path)) =>
        /\ pc = "done"
        /\ resp.kind = "response" /\ resp.status = 204 /\ resp.body = Null
        /\ hasCors(resp)
        /\ call = NoCall /\ gate = NoDecision
        /\ io.gets = 0 /\ io.puts = 0 /\ io.fetches = 0
        /\ upstream = NoUpstream

\* C5 witness: a preflight to an invalid sub-path by an identity whose record
\* is at the handler's limit is answered 204.
C5_Witness ==
    /\ orig.method = "OPTIONS" /\ orig.path = <<E, W("off"), W("nonsense")>>
    /\ env.RATE /\ store[rateGateKey(orig)].val = String(OFF_LIMIT)
    /\ pc = "done" /\ resp.status = 204

\* The request a direct call of /usda/search with the query string of r is.
directUsdaSearch(r) ==
    [method |-> r.method, path |-> UsdaSearchPath, query |-> r.query, ip |-> r.ip]

\* The dispatch the router is to make, by path and query alone.
expectedHandler(r) ==
    IF startsWith(r.path, "usda") THEN "usda"
    ELSE IF startsWith(r.path, "off") THEN "off"
    ELSE IF r.path = RootPath /\ searchParamsGet(r.query, "query") \notin {Null, E}
    THEN "usda"
    ELSE "none"

\* C6: the dispatch is a function of path and query: /usda/... goes to the
\* USDA handler and /off/... to the OFF handler with the request as it came;
\* / with a non-empty query parameter goes to the USDA handler as the request
\* /usda/search with the same query string, method and headers, and gets the
\* response and the gate effect that request gets; every other request gets
\* the 404 text without calling the gate, the store or an upstream.
C6_Dispatch ==
    pc # "idle" =>
        /\ handler = expectedHandler(orig)
        /\ (underApi(orig.path) => req = orig)
        /\ (handler = "usda" /\ ~underApi(orig.path)) =>
              /\ req = directUsdaSearch(orig)
              /\ route(directUsdaSearch(orig)) = [handler |-> handler, req |-> req]
              /\ (isPreflight(orig) /\ resp.kind = "response") => resp = cors(Null)
              /\ gate.decided =>
                    /\ upstream = handleUSDA(directUsdaSearch(orig), gate).up
                    /\ (pc = "done" /\ upstream = NoUpstream) =>
                          resp = handleUSDA(directUsdaSearch(orig), gate).resp
                    /\ (pc = "done" /\ upstream # NoUpstream) =>
                          resp = usdaResponse(io.outcome)
        /\ handler = "none" =>
              /\ pc = "done"
              /\ resp = Response(NotFoundText, 404, resp.headers)
              /\ call = NoCall /\ gate = NoDecision
              /\ io.gets = 0 /\ io.puts = 0 /\ io.fetches = 0

\* C6 witness: GET /?query=apple was admitted, forwarded to USDA and answered
\* with the upstream's 200.
C6_Witness ==
    /\ orig.path = RootPath /\ orig.method = "GET" /\ handler = "usda"
    /\ pc = "done" /\ resp.status = 200 /\ upstream.api = "usda"

\* JSON.stringify({ error: message }), written out.
errorBody(message) == <<"{", "error", ":", message, "}">>

\* The hit count the request in flight read from the store.
readHits == IF io.read = Null THEN 0 ELSE parseInt(io.read)

invalidEndpoint ==
    IF handler = "usda" THEN pathPart(req.path, 2) # W("search")
    ELSE pathPart(req.path, 2) \notin {W("search"), W("product")}

\* C7: in both handlers a request that is not OPTIONS meets the rate gate
\* first, then the endpoint check, then the parameter check: no response
\* precedes the gate's decision; an identity at its limit gets 429 with body
\* {error: "Rate limit exceeded"} and Retry-After equal to the window and no
\* upstream fetch, whatever its sub-path and query; an admitted request with a
\* wrong sub-path gets 400 "Invalid endpoint..."; an admitted search without
\* query gets 400 "Missing ?query parameter"; and with a store bound a request
\* answered 400 has stored its hit count plus one.
C7_GateThenEndpointThenParameter ==
    (pc # "idle" /\ handler # "none" /\ req.method # "OPTIONS") =>
        /\ ~gate.decided => resp.kind # "response"
        /\ (env.RATE /\ gate.decided /\ readHits >= call.limit) => ~gate.allowed
        /\ (gate.decided /\ ~gate.allowed) =>
              /\ pc = "done" /\ resp.kind = "response" /\ resp.status = 429
              /\ resp.body = errorBody("Rate limit exceeded")
              /\ "Retry-After" \in DOMAIN resp.headers
              /\ resp.headers["Retry-After"] = String(call.windowSec)
              /\ io.fetches = 0
        /\ (gate.decided /\ gate.allowed /\ invalidEndpoint) =>
              /\ pc = "done" /\ resp.status = 400
              /\ resp.body =
                    errorBody(IF handler = "usda" THEN "Invalid endpoint. Use /usda/search"
                              ELSE "Invalid endpoint. Use /off/search or /off/product")
        /\ (gate.decided /\ gate.allowed /\ pathPart(req.path, 2) = W("search")
               /\ searchParamsGet(req.query, "query") \in {Null, E}) =>
              /\ pc = "done" /\ resp.status = 400
              /\ resp.body = errorBody("Missing ?query parameter")
        /\ (env.RATE /\ resp.status = 400) =>
              /\ io.gets = 1 /\ io.puts = 1
              /\ io.wrote = String(readHits + 1)

\* C7 witness: an identity at the OFF limit asks for an invalid sub-path and
\* gets the 429, not the 400.
C7_Witness ==
    /\ handler = "off" /\ req.path = <<E, W("off"), W("nonsense")>>
    /\ env.RATE /\ readHits = OFF_LIMIT
    /\ pc = "done" /\ resp.status = 429

\* s occurs in the string t.
contains(t, s) ==
    \E i \in 1..(Len(t) - Len(s) + 1) : SubSeq(t, i, i + Len(s) - 1) = s

\* The cache directive of each endpoint.
cacheControl(u) ==
    IF u.api = "off" /\ u.endpoint = "product" THEN W("s-maxage=86400")
    ELSE W("s-maxage=300")

\* C8: an admitted and valid request issues one upstream fetch, never a
\* second, and the outcome of that fetch decides the response: a success
\* gives the upstream status with Cache-Control s-maxage=300 (USDA search, OFF
\* search) or s-maxage=86400 (OFF product); a non-success gives 502 with the
\* upstream status in the body; a thrown fetch, or an OFF search body that
\* does not parse, gives 500 with a message that does not depend on the
\* failure; an exception never leaves the handler.
C8_UpstreamOutcomeDecides ==
    /\ io.fetches <= 1
    /\ pc = "upstream" => io.fetches = 1
    /\ (pc = "done" /\ io.fetches = 1) =>
          LET out == io.outcome
              success == out.kind = "response" /\ out.status \in 200..299
              parsed == upstream.api = "off" /\ upstream.endpoint = "search"
          IN /\ resp.kind = "response"
             /\ (success /\ (parsed => out.json)) =>
                   /\ resp.status = out.status
                   /\ "Cache-Control" \in DOMAIN resp.headers
                   /\ resp.headers["Cache-Control"] = cacheControl(upstream)
             /\ (out.kind = "response" /\ ~success) =>
                   /\ resp.status = 502
                   /\ contains(resp.body, <<"status", ":">> \o String(out.status))
             /\ (out.kind = "throw" \/ (success /\ parsed /\ ~out.json)) =>
                   /\ resp.status = 500
                   /\ resp.body \in
                         {errorBody("Failed to fetch from USDA API"),
                          errorBody("Failed to fetch from Open Food Facts API")}

\* C8 witness: an OFF product lookup whose upstream answered 201 is answered
\* 201 with the 24-hour cache directive.
C8_Witness ==
    /\ pc = "done" /\ upstream.api = "off" /\ upstream.endpoint = "product"
    /\ io.outcome.status = 201 /\ resp.status = 201
    /\ resp.headers["Cache-Control"] = W("s-maxage=86400")

\* The value of the first pair of a name in a query string as it is written
\* in the URL, or null.
RECURSIVE rawParam(_, _)
rawParam(query, name) ==
    IF query = <<>> THEN Null
    ELSE IF query[1][1] = name THEN query[1][2]
    ELSE rawParam(Tail(query), name)

\* The product code a request gives, as written in its URL: the path segment
\* after product when it is not empty, otherwise the code parameter.
givenCode(r) ==
    IF pathPart(r.path, 3) \notin {Null, E} THEN pathPart(r.path, 3)
    ELSE rawParam(r.query, "code")

\* The upstream request of /off/product/{c}.
pathFormFetch(c) ==
    handleOFF([method |-> "GET", path |-> Append(OffProduct, c), query |-> <<>>,
               ip |-> Null], Decision(TRUE, 0)).up

\* C9: an admitted /off/product request takes its code from the path segment
\* when that is not empty and from the code parameter otherwise; with no code
\* it is answered 400 "Missing product code..." and fetches nothing; and
\* whichever way the code {c} is given, the upstream request is the one
\* /off/product/{c} issues.
C9_PathAndParameterAgree ==
    (handler = "off" /\ gate.decided /\ gate.allowed
       /\ pathPart(req.path, 2) = W("product")) =>
        IF givenCode(req) \in {Null, E}
        THEN /\ pc = "done" /\ resp.status = 400 /\ io.fetches = 0
             /\ contains(resp.body, W("Missing product code. Use /off/product/{code} or ?code parameter"))
        ELSE upstream = pathFormFetch(givenCode(req))

\* C9, the part about which code is taken: the upstream request carries the
\* path segment as written when there is one, and otherwise the decoded code
\* parameter.
C9_CodeSelection ==
    (handler = "off" /\ gate.decided /\ gate.allowed
       /\ pathPart(req.path, 2) = W("product")) =>
        IF givenCode(req) \in {Null, E}
        THEN /\ pc = "done" /\ resp.status = 400 /\ io.fetches = 0
        ELSE /\ upstream.endpoint = "product"
             /\ upstream.arg =
                   IF pathPart(req.path, 3) \notin {Null, E} THEN pathPart(req.path, 3)
                   ELSE urlPath(formDecode(rawParam(req.query, "code")))

\* C10: whatever the request and whatever the counter store and the upstreams
\* do, fetch returns a response: no exception reaches the caller.
C10_NoExceptionEscapes == pc = "done" => resp.kind = "response"

\* C11: the two limits are enforced per API.  With the caller's requests
\* handled one at a time, and counting from a state where the caller has no
\* record, each of its first 10 USDA requests is admitted whatever the number
\* of its OFF requests so far, and each of its first 6 OFF requests whatever
\* the number of its USDA requests.
C11_LimitsPerApi ==
    \A p \in procs :
        (serial /\ ppc[p] = "done" /\ win.clean) =>
            /\ (papi[p] = "usda" /\ win.usda \in 1..USDA_LIMIT)
                   => pgate[p].allowed
            /\ (papi[p] = "off" /\ win.off \in 1..OFF_LIMIT)
                   => pgate[p].allowed

\* The caller's record, or null.
record == kvGet(store, gateKey, now)

\* The hit count resets windowSec after the first hit of the window: a record
\* created at win.first is gone at win.first + windowSec, whatever the hits
\* that followed the first.
resetsAfterFirstHit ==
    (serial /\ win.clean /\ record # Null) => now < win.first + USDA_WINDOW

\* A caller that never had more calls in a span of windowSec than the limit
\* is not rejected.
pacedNeverRejected ==
    \A p \in procs :
        (serial /\ win.clean /\ win.paced /\ ppc[p] = "done")
            => pgate[p].allowed

\* C12: the gate is a fixed-window limit of `limit` requests per windowSec.
\* With requests handled one at a time, the count of a caller resets
\* windowSec after the first hit of the window whatever the spacing of the
\* later hits, so a caller that never sends more than `limit` requests in any
\* span of windowSec is never rejected.
C12_FixedWindow == resetsAfterFirstHit /\ pacedNeverRejected

\* No span of windowSec holds more than twice the limit of admitted requests
\* of the caller.
spanAtMostTwiceLimit == serial => Len(win.span) <= 2 * USDA_LIMIT

\* The burst after the window boundary is admitted: the gate rejects a
\* request only inside the window its record's first hit began, so the
\* requests that arrive at the boundary follow those admitted just before it.
burstAfterBoundary ==
    \A p \in procs :
        (serial /\ win.clean /\ ppc[p] = "get" /\ ppc'[p] = "done"
                /\ ~pgate'[p].allowed)
            => now < win.first + rateGateArgs(papi[p]).windowSec

\* C13: with the caller's requests handled one at a time, the worst case of
\* the fixed-window gate is 2 x limit: no span of windowSec holds more than
\* 2 x limit admitted requests, and a burst straddling a window boundary
\* reaches 2 x limit.
C13_WorstCaseTwiceLimit ==
    [][spanAtMostTwiceLimit' /\ burstAfterBoundary]_vars

\* Request p's put resolves in this step.
putStep(p) == ppc[p] = "put" /\ ppc'[p] = "done"

bothAdmittedOnOneCount ==
    /\ procs = Procs
    /\ \A p \in Procs : ppc[p] = "done" /\ pgate[p].allowed
    /\ phits[1] = phits[2]

\* C15: get and put are separate steps with no lock between them.  When two
\* overlapping requests of the caller have read the same count below the
\* limit and both were admitted, the stored count has risen by 1 only; and
\* the count of a record never exceeds the number of requests admitted since
\* it was created.  (C15_Witness is the interleaving the claim says exists.)
C15_LostUpdate ==
    /\ (bothAdmittedOnOneCount /\ record # Null)
           => /\ record = String(phits[1] + 1)
              /\ \A p \in Procs : phits[p] < rateGateArgs(papi[p]).limit
    /\ (win.clean /\ record # Null) => parseInt(record) <= win.admitted

\* Two overlapping requests read the same count and both were admitted, the
\* record rose by 1, and more requests than the larger limit have been
\* admitted since the record was created.
C15_Witness ==
    /\ bothAdmittedOnOneCount
    /\ record = String(phits[1] + 1)
    /\ win.clean
    /\ win.admitted > USDA_LIMIT

\* The request in flight names an endpoint of its handler and gives the
\* parameter that endpoint requires.
validated ==
    /\ ~invalidEndpoint
    /\ IF pathPart(req.path, 2) = W("search")
       THEN searchParamsGet(req.query, "query") \notin {Null, E}
       ELSE givenCode(req) \notin {Null, E}

====
